---- MODULE Spec2Model ----
(***************************************************************************)
(* Model of voicemail_generator.py: main's argument validation, the        *)
(* per-user pipeline process_user (render, Polly synthesis, ffmpeg         *)
(* conversion, temp-file removal) and the batch loop process_csv.          *)
(*                                                                         *)
(* A Python string is a sequence of one-character strings.  The contents   *)
(* of the output directory are the set `files` of paths.  The csv reader   *)
(* is lazy, as in the code: every iteration of the loop yields the next    *)
(* row of the file or its end.                                             *)
(***************************************************************************)
EXTENDS Integers, Sequences, FiniteSets, TLC

\* ------------------------------------------------------------------ bounds
\* lines the csv reader yields at most (first line included)
MaxLines == 3

\* ------------------------------------------------------------ input sets
None == <<"<None>">>

Whitespace == {" ", "\t"}

\* values of --firstname / --lastname: absent, empty, blank, a name
ArgNames == { None, <<>>, <<" ">>, <<"a">> }

\* rows csv.reader yields: no column, one column, three columns, a blank
\* cell, a cell to trim, the same pair twice, two pairs with one file name
Rows ==
  { <<>>,
    << <<"a">> >>,
    << <<"a">>, <<"a">>, <<"a">> >>,
    << <<"a">>, <<>> >>,
    << <<" ">>, <<"a">> >>,
    << <<"a">>, <<"a">> >>,
    << <<" ", "a">>, <<"a", " ">> >>,
    << <<"a", "_">>, <<"a">> >>,
    << <<"a">>, <<"_", "a">> >> }

\* values of --input: absent, empty string, a path
Inputs == { None, <<>>, <<"u">> }

\* --output
OutputDir == <<"o">>

\* contents of the output directory before the run: nothing, or the WAV and
\* a stale temporary file of an earlier run
PreExisting ==
  { {},
    { <<"o", "/", "a", "_", "a", ".", "w", "a", "v">>,
      <<"o", "/", "a", "_", "a", "_", "t", "e", "m", "p", ".", "p", "c", "m">> } }

\* outcomes of generate_polly_audio's body
SynthOutcomes == { "ok", "clientError", "raiseNoFile", "raisePartial" }

\* outcomes of convert_to_3cx_format's body
ConvOutcomes == { "ok", "calledProcessError", "fileNotFound", "raiseOther" }

\* ------------------------------------------------------- pure functions
\* Python truthiness of an optional string argument
Truthy(x) == x # None /\ x # <<>>

RECURSIVE LStrip(_)
LStrip(s) ==
  IF s # <<>> /\ Head(s) \in Whitespace THEN LStrip(Tail(s)) ELSE s

RECURSIVE RStrip(_)
RStrip(s) ==
  IF s # <<>> /\ s[Len(s)] \in Whitespace
  THEN RStrip(SubSeq(s, 1, Len(s) - 1))
  ELSE s

StripIdentity(s) == s

\* str.strip()
Strip(s) == RStrip(LStrip(s))

\* os.path.join(output_dir, name)
PathJoin(d, f) ==
  IF f # <<>> /\ Head(f) = "/" THEN f ELSE d \o <<"/">> \o f

TempSuffix == <<"_", "t", "e", "m", "p", ".", "p", "c", "m">>

WavSuffix == <<".", "w", "a", "v">>

\* f"{firstname}_{lastname}_temp.pcm" under output_dir
TempFile(d, fn, ln) == PathJoin(d, fn \o <<"_">> \o ln \o TempSuffix)

OutputFileFirstOnly(d, fn, ln) == PathJoin(d, fn \o WavSuffix)

\* f"{firstname}_{lastname}.wav" under output_dir
OutputFile(d, fn, ln) == PathJoin(d, fn \o <<"_">> \o ln \o WavSuffix)

RemoveFileSkipped(fs, p) == fs

\* os.remove(path)
RemoveFile(fs, p) == fs \ {p}

WriteFileSkipped(fs, p) == fs

\* open(path, 'wb') / ffmpeg -y writing path: creates or overwrites
WriteFile(fs, p) == fs \cup {p}

MakedirsSkipped(created) == created

\* os.makedirs(args.output, exist_ok=True)
Makedirs(created) == TRUE

ArgsErrorNoLastnameCheck(a) ==
  \/ ~Truthy(a.input) /\ ~(Truthy(a.firstname) /\ Truthy(a.lastname))
  \/ Truthy(a.lastname) /\ ~Truthy(a.firstname)

\* main's three parser.error conditions
ArgsError(a) ==
  \/ ~Truthy(a.input) /\ ~(Truthy(a.firstname) /\ Truthy(a.lastname))
  \/ Truthy(a.firstname) /\ ~Truthy(a.lastname)
  \/ Truthy(a.lastname) /\ ~Truthy(a.firstname)

SingleUserUnlessInput(a) ==
  ~Truthy(a.input) /\ Truthy(a.firstname) /\ Truthy(a.lastname)

\* main's dispatch test: if args.firstname and args.lastname
SingleUser(a) == Truthy(a.firstname) /\ Truthy(a.lastname)

RowEligibleNoStrip(row) ==
  /\ Len(row) >= 2
  /\ row[1] # <<>>
  /\ row[2] # <<>>

\* process_csv's test for calling process_user on a row
RowEligible(row) ==
  /\ Len(row) >= 2
  /\ Strip(row[1]) # <<>>
  /\ Strip(row[2]) # <<>>

TallySuccessAlways(s, ok) == s + 1

\* process_csv: success += 1 when process_user returned True
TallySuccess(s, ok) == IF ok THEN s + 1 ELSE s

\* process_csv: failed += 1 when process_user returned False
TallyFailed(f, ok) == IF ok THEN f ELSE f + 1

\* --------------------------------------------------------------- state
VARIABLES
  args,            \* parsed command line: input, firstname, lastname
  fileExists,      \* whether the --input path can be opened
  templateOk,      \* whether the greeting template formats without error
  pc,              \* position in main / process_csv
  dirCreated,      \* os.makedirs has run
  eof,             \* the csv reader is exhausted
  lines,           \* the lines the reader has yielded so far
  status,          \* per yielded line: header, skipped, active, ...
  firstname,       \* process_csv / process_user locals
  lastname,
  temp_file,
  output_file,
  step,            \* position in process_user
  synthOut,        \* outcome of the synthesis of the current row
  convOut,         \* outcome of the conversion of the current row
  cleaned,         \* os.remove(temp_file) ran for the current row
  result,          \* return value of process_user
  success,
  failed,
  base,            \* counters, files and written when the row was read
  files,           \* paths existing under the output directory
  written,         \* WAV paths written by this run
  summaryPrinted

vars ==
  << args, fileExists, templateOk, pc, dirCreated, eof, lines, status,
     firstname, lastname, temp_file, output_file, step, synthOut, convOut,
     cleaned, result, success, failed, base, files, written, summaryPrinted >>

inputVars == << args, fileExists, templateOk >>

userVars == << firstname, lastname, temp_file, output_file >>

Init ==
  /\ args \in [ input : Inputs,
                firstname : ArgNames,
                lastname : ArgNames ]
  /\ fileExists \in BOOLEAN
  /\ templateOk \in BOOLEAN
  /\ pc = "main"
  /\ dirCreated = FALSE
  /\ eof = FALSE
  /\ lines = <<>>
  /\ status = <<>>
  /\ firstname = <<>>
  /\ lastname = <<>>
  /\ temp_file = <<>>
  /\ output_file = <<>>
  /\ step = "idle"
  /\ synthOut = "none"
  /\ convOut = "none"
  /\ cleaned = FALSE
  /\ result = FALSE
  /\ success = 0
  /\ failed = 0
  /\ files \in PreExisting
  /\ base = [ success |-> 0, failed |-> 0, files |-> files, written |-> {} ]
  /\ written = {}
  /\ summaryPrinted = FALSE

\* ------------------------------------------------------------- actions
\* where an exception leaving process_user lands: process_csv's except
\* clauses in batch mode, the top of main in single-user mode
RaisedPc == IF pc = "loop" THEN "csvError" ELSE "crashed"

MarkCurrent(st) ==
  IF pc = "loop" THEN [status EXCEPT ![Len(status)] = st] ELSE status

\* main: parse_args and the three validation checks
Validate ==
  /\ pc = "main"
  /\ pc' = IF ArgsError(args) THEN "argError" ELSE "validated"
  /\ UNCHANGED << inputVars, dirCreated, eof, lines, status, userVars, step,
                  synthOut, convOut, cleaned, result, success, failed, base,
                  files, written, summaryPrinted >>

\* main: os.makedirs(args.output, exist_ok=True)
CreateOutputDir ==
  /\ pc = "validated"
  /\ dirCreated' = Makedirs(dirCreated)
  /\ pc' = "dispatch"
  /\ UNCHANGED << inputVars, eof, lines, status, userVars, step, synthOut,
                  convOut, cleaned, result, success, failed, base, files,
                  written, summaryPrinted >>

\* main: single-user branch, entry of process_user with the raw arguments
DispatchSingle ==
  /\ pc = "dispatch"
  /\ SingleUser(args)
  /\ pc' = "single"
  /\ firstname' = args.firstname
  /\ lastname' = args.lastname
  /\ step' = "render"
  /\ base' = [ success |-> success, failed |-> failed, files |-> files,
                   written |-> written ]
  /\ UNCHANGED << inputVars, dirCreated, eof, lines, status, temp_file,
                  output_file, synthOut, convOut, cleaned, result, success,
                  failed, files, written, summaryPrinted >>

\* main: batch branch; process_csv opens the file, skips the first line and
\* zeroes the counters.  A file that cannot be opened ends process_csv.
DispatchCsv ==
  /\ pc = "dispatch"
  /\ ~SingleUser(args)
  /\ IF ~fileExists
     THEN /\ pc' = "csvError"
          /\ UNCHANGED << eof, lines, status >>
     ELSE /\ pc' = "loop"
          /\ \/ /\ eof' = TRUE
                /\ UNCHANGED << lines, status >>
             \/ \E row \in Rows :
                  /\ lines' = <<row>>
                  /\ status' = <<"header">>
                  /\ eof' = FALSE
  /\ success' = 0
  /\ failed' = 0
  /\ UNCHANGED << inputVars, dirCreated, userVars, step, synthOut, convOut,
                  cleaned, result, base, files, written, summaryPrinted >>

\* process_csv: one iteration of `for row in reader` up to the call of
\* process_user (or the skip of the row)
ReadRow ==
  /\ pc = "loop"
  /\ step = "idle"
  /\ ~eof
  /\ Len(lines) < MaxLines
  /\ \E row \in Rows :
       /\ lines' = Append(lines, row)
       /\ base' = [ success |-> success, failed |-> failed, files |-> files,
                   written |-> written ]
       /\ synthOut' = "none"
       /\ convOut' = "none"
       /\ cleaned' = FALSE
       /\ IF Len(row) < 2
          THEN /\ status' = Append(status, "skipped")
               /\ UNCHANGED << firstname, lastname, step >>
          ELSE /\ firstname' = Strip(row[1])
               /\ lastname' = Strip(row[2])
               /\ IF RowEligible(row)
                  THEN /\ status' = Append(status, "active")
                       /\ step' = "render"
                  ELSE /\ status' = Append(status, "skipped")
                       /\ UNCHANGED step
  /\ UNCHANGED << inputVars, pc, dirCreated, eof, temp_file, output_file,
                  result, success, failed, files, written, summaryPrinted >>

\* process_user: greeting_template.format and the two path computations
Render ==
  /\ step = "render"
  /\ IF templateOk
     THEN /\ temp_file' = TempFile(OutputDir, firstname, lastname)
          /\ output_file' = OutputFile(OutputDir, firstname, lastname)
          /\ step' = "synth"
          /\ UNCHANGED << pc, status >>
     ELSE /\ step' = "idle"
          /\ status' = MarkCurrent("raised")
          /\ pc' = RaisedPc
          /\ UNCHANGED << temp_file, output_file >>
  /\ UNCHANGED << inputVars, dirCreated, eof, lines, firstname, lastname,
                  synthOut, convOut, cleaned, result, success, failed, base,
                  files, written, summaryPrinted >>

\* process_user: generate_polly_audio(greeting, temp_file, voice_id)
\*   ok            the audio is written to temp_file, returns True
\*   clientError   ClientError / NoCredentialsError, caught, returns False
\*   raiseNoFile   another exception before temp_file is opened
\*   raisePartial  another exception while reading the stream, after open
Synthesize ==
  /\ step = "synth"
  /\ \E o \in SynthOutcomes :
       /\ synthOut' = o
       /\ files' = IF o \in {"ok", "raisePartial"}
                   THEN WriteFile(files, temp_file) ELSE files
       /\ IF o = "ok"
          THEN /\ step' = "convert"
               /\ UNCHANGED << pc, status, result >>
          ELSE IF o = "clientError"
          THEN /\ step' = "return"
               /\ result' = FALSE
               /\ UNCHANGED << pc, status >>
          ELSE /\ step' = "idle"
               /\ status' = MarkCurrent("raised")
               /\ pc' = RaisedPc
               /\ UNCHANGED result
  /\ UNCHANGED << inputVars, dirCreated, eof, lines, userVars, convOut,
                  cleaned, success, failed, base, written, summaryPrinted >>

\* process_user: convert_to_3cx_format(temp_file, output_file)
\*   ok                  ffmpeg wrote output_file, returns True
\*   calledProcessError  non-zero exit, caught, returns False
\*   fileNotFound        ffmpeg missing, caught, returns False
\*   raiseOther          another exception of subprocess.run
Convert ==
  /\ step = "convert"
  /\ \E o \in ConvOutcomes :
       /\ convOut' = o
       /\ files' = IF o = "ok" THEN WriteFile(files, output_file) ELSE files
       /\ written' = IF o = "ok" THEN WriteFile(written, output_file) ELSE written
       /\ IF o = "raiseOther"
          THEN /\ step' = "idle"
               /\ status' = MarkCurrent("raised")
               /\ pc' = RaisedPc
          ELSE /\ step' = IF o = "ok" THEN "cleanupOk" ELSE "cleanupFail"
               /\ UNCHANGED << pc, status >>
  /\ UNCHANGED << inputVars, dirCreated, eof, lines, userVars, synthOut,
                  cleaned, result, success, failed, base, summaryPrinted >>

\* process_user: os.remove(temp_file) on either path, then return
CleanupTemp ==
  /\ step \in {"cleanupOk", "cleanupFail"}
  /\ files' = RemoveFile(files, temp_file)
  /\ cleaned' = TRUE
  /\ result' = (step = "cleanupOk")
  /\ step' = "return"
  /\ UNCHANGED << inputVars, pc, dirCreated, eof, lines, status, userVars,
                  synthOut, convOut, success, failed, base, written,
                  summaryPrinted >>

\* process_csv: the counters after process_user returned
Tally ==
  /\ pc = "loop"
  /\ step = "return"
  /\ success' = TallySuccess(success, result)
  /\ failed' = TallyFailed(failed, result)
  /\ status' = MarkCurrent(IF result THEN "Success" ELSE "Failure")
  /\ step' = "idle"
  /\ UNCHANGED << inputVars, pc, dirCreated, eof, lines, userVars, synthOut,
                  convOut, cleaned, result, base, files, written,
                  summaryPrinted >>

\* main: process_user returned in single-user mode, its value is dropped
FinishSingle ==
  /\ pc = "single"
  /\ step = "return"
  /\ pc' = "done"
  /\ step' = "idle"
  /\ UNCHANGED << inputVars, dirCreated, eof, lines, status, userVars,
                  synthOut, convOut, cleaned, result, success, failed, base,
                  files, written, summaryPrinted >>

\* process_csv: the reader is exhausted, the summary is printed
Summary ==
  /\ pc = "loop"
  /\ step = "idle"
  /\ eof' = TRUE
  /\ summaryPrinted' = TRUE
  /\ pc' = "done"
  /\ UNCHANGED << inputVars, dirCreated, lines, status, userVars, step,
                  synthOut, convOut, cleaned, result, success, failed, base,
                  files, written >>

Next ==
  \/ Validate
  \/ CreateOutputDir
  \/ DispatchSingle
  \/ DispatchCsv
  \/ ReadRow
  \/ Render
  \/ Synthesize
  \/ Convert
  \/ CleanupTemp
  \/ Tally
  \/ FinishSingle
  \/ Summary

Spec == Init /\ [][Next]_vars

\* ------------------------------------------------------------ properties
Cur == Len(lines)

Blank(s) == \A i \in 1..Len(s) : s[i] \in Whitespace

\* a line process_csv has to process: two columns, both names non-blank
EligibleLine(r) == Len(r) >= 2 /\ ~Blank(r[1]) /\ ~Blank(r[2])

InBatchRow == pc \in {"loop", "done", "csvError"} /\ Cur >= 2

SynthFailed == synthOut \in {"clientError", "raiseNoFile", "raisePartial"}

ConvFailedCaught == convOut \in {"calledProcessError", "fileNotFound"}

\* process_user has ended for the current batch row, whose synthesis or
\* conversion did not succeed
CurrentRowFailed ==
  /\ InBatchRow
  /\ EligibleLine(lines[Cur])
  /\ step = "idle"
  /\ \/ SynthFailed
     \/ convOut \in {"calledProcessError", "fileNotFound", "raiseOther"}

\* C1: in batch mode, whatever the outcome of the synthesis and conversion of
\* a row (an exception of the TTS call other than ClientError /
\* NoCredentialsError included), once the row has failed the batch is still
\* running or has completed with its summary, and the failure has added one
\* to the failure count.
C1_RowFailureNeverEndsBatch ==
  CurrentRowFailed =>
    /\ pc \in {"loop", "done"}
    /\ failed = base.failed + 1
    /\ success = base.success

\* C2: once process_user has ended for a batch row whose synthesis failed,
\* neither the conversion nor the removal of the temporary file has run, no
\* output WAV was written, failed has grown by exactly one and success is
\* unchanged.
C2_SynthFailureCounted ==
  (InBatchRow /\ SynthFailed /\ step = "idle") =>
    /\ convOut = "none"
    /\ ~cleaned
    /\ written = base.written
    /\ (output_file \in files) = (output_file \in base.files)
    /\ failed = base.failed + 1
    /\ success = base.success

\* C3: when the synthesis of a row succeeded and its conversion failed with
\* a missing transcoder or a non-zero exit, the temporary file is gone as
\* soon as process_user returns (so before the row is marked Failure), the
\* output directory holds no file it did not hold before the row, and the
\* row is marked Failure with failed grown by one.
C3_ConvFailureCleansTemp ==
  (synthOut = "ok" /\ ConvFailedCaught) =>
    /\ step \in {"cleanupFail", "return", "idle"}
    /\ step \in {"return", "idle"} => (cleaned /\ temp_file \notin files)
    /\ written = base.written
    /\ files \ {temp_file} = base.files \ {temp_file}
    /\ (pc = "loop" /\ step = "return") => status[Cur] = "active"
    /\ (InBatchRow /\ step = "idle") =>
         /\ status[Cur] = "Failure"
         /\ failed = base.failed + 1
         /\ success = base.success

C3_Witness ==
  /\ pc = "loop"
  /\ Cur >= 2
  /\ synthOut = "ok"
  /\ convOut = "fileNotFound"
  /\ status[Cur] = "Failure"
  /\ temp_file \in base.files
  /\ temp_file \notin files
  /\ failed = 2

WavPathOf(fn, ln) == OutputDir \o <<"/">> \o fn \o <<"_">> \o ln \o WavSuffix

TempPathOf(fn, ln) == OutputDir \o <<"/">> \o fn \o <<"_">> \o ln \o TempSuffix

RowReachedSuccess ==
  \/ pc = "single" /\ step = "return" /\ result
  \/ pc = "done" /\ lines = <<>> /\ ~eof /\ result
  \/ InBatchRow /\ status[Cur] = "Success"

\* C4: when a row whose synthesis and conversion both succeeded reaches
\* Success, exactly one file exists at <outputDir>/<firstname>_<lastname>.wav,
\* <firstname>_<lastname>_temp.pcm does not exist, and in batch mode success
\* has grown by one.
C4_SuccessLeavesOneWav ==
  RowReachedSuccess =>
    /\ synthOut = "ok" /\ convOut = "ok"
    /\ Cardinality({ f \in files : f = WavPathOf(firstname, lastname) }) = 1
    /\ WavPathOf(firstname, lastname) \in written
    /\ TempPathOf(firstname, lastname) \notin files
    /\ InBatchRow =>
         /\ success = base.success + 1
         /\ failed = base.failed

C4_Witness ==
  /\ InBatchRow
  /\ status[Cur] = "Success"
  /\ firstname = <<"a", "_">>
  /\ base.success = 1
  /\ success = 2
  /\ WavPathOf(firstname, lastname) \in files
  /\ TempPathOf(firstname, lastname) \notin files

\* C5: while a line with fewer than two columns, or with a first or last
\* name that is blank after trimming, is the current line of the batch, it
\* is marked skipped, the counters and the files are what they were when it
\* was read, and no synthesis, conversion or removal has run for it.
C5_SkippedRowHasNoEffect ==
  (InBatchRow /\ ~EligibleLine(lines[Cur])) =>
    /\ status[Cur] = "skipped"
    /\ step = "idle"
    /\ synthOut = "none"
    /\ convOut = "none"
    /\ ~cleaned
    /\ success = base.success
    /\ failed = base.failed
    /\ files = base.files
    /\ written = base.written

C5_Witness ==
  /\ pc = "loop"
  /\ Cur = 3
  /\ lines[3] = << <<" ">>, <<"a">> >>
  /\ status[3] = "skipped"
  /\ status[2] = "Success"
  /\ success = 1
  /\ files # {}

Supplied(x) == x # None /\ x # <<>>

CompletePair(a) == Supplied(a.firstname) /\ Supplied(a.lastname)

HalfPair(a) == Supplied(a.firstname) # Supplied(a.lastname)

NothingProcessed ==
  /\ ~dirCreated
  /\ lines = <<>>
  /\ step = "idle"
  /\ synthOut = "none"
  /\ convOut = "none"
  /\ temp_file = <<>>
  /\ files \in PreExisting
  /\ written = {}

\* C6: an invocation with neither --input nor a complete name pair, or with
\* only one of the two names (with or without --input), ends in the argument
\* error; the output directory is never created and nothing is rendered,
\* synthesized or converted.
C6_BadArgsRejectedFirst ==
  ((~Supplied(args.input) /\ ~CompletePair(args)) \/ HalfPair(args)) =>
    /\ pc \in {"main", "argError"}
    /\ NothingProcessed

C6_Witness ==
  /\ pc = "argError"
  /\ Supplied(args.input)
  /\ Supplied(args.firstname)
  /\ args.lastname = None
  /\ NothingProcessed

\* C7 (as stated): an invocation with both a complete name pair and --input
\* is rejected with an argument error before any processing.
C7_PairAndInputRejected ==
  (Supplied(args.input) /\ CompletePair(args)) =>
    /\ pc \in {"main", "argError"}
    /\ NothingProcessed

\* C7 (amended): an invocation with both a complete name pair and --input is
\* not rejected; it runs in single-user mode on the name pair, and the input
\* file is never opened, no line of it is read and no summary is printed.
C7_PairTakesPrecedence ==
  (Supplied(args.input) /\ CompletePair(args)) =>
    /\ pc \in {"main", "validated", "dispatch", "single", "done", "crashed"}
    /\ lines = <<>>
    /\ ~eof
    /\ ~summaryPrinted
    /\ step # "idle" =>
         /\ firstname = args.firstname
         /\ lastname = args.lastname

C7_Witness ==
  /\ Supplied(args.input)
  /\ CompletePair(args)
  /\ pc = "done"
  /\ result
  /\ WavPathOf(args.firstname, args.lastname) \in written

Terminal == {"header", "skipped", "Success", "Failure"}

\* C8: in batch mode only the line read last can be in process: every
\* earlier line is in a terminal state, a step of process_user belongs to
\* the line read last, and the output directory was created before the
\* first line is read or any step runs.
C8_RowsOneAtATime ==
  /\ \A k \in 1..(Len(status) - 1) : status[k] \in Terminal
  /\ Len(status) = Len(lines)
  /\ (pc = "loop" /\ step # "idle") => status[Cur] = "active"
  /\ (pc = "loop" /\ step = "idle" /\ Cur >= 1) => status[Cur] \in Terminal
  /\ (step # "idle" \/ lines # <<>> \/ pc \in {"loop", "single"}) => dirCreated

C8_Witness ==
  /\ pc = "loop"
  /\ Cur = 3
  /\ status[2] = "Failure"
  /\ status[3] = "active"
  /\ step = "convert"
  /\ dirCreated

SuccessLines == { j \in 2..Len(status) : status[j] = "Success" }

WavOfLine(r) == WavPathOf(Strip(r[1]), Strip(r[2]))

\* C9 (as stated): when the summary is printed the number of WAV files the
\* run has written equals the success count.
C9_WavCountIsSuccessCount ==
  summaryPrinted => Cardinality(written) = success

\* C9 (amended): when the summary is printed the WAV files the run has
\* written are exactly the files <firstname>_<lastname>.wav of the rows
\* counted as successes, all of them exist, and their number is at most the
\* success count, equal to it exactly when no two successful rows have the
\* same file name.
C9_WavPerDistinctName ==
  summaryPrinted =>
    /\ written = { WavOfLine(lines[j]) : j \in SuccessLines }
    /\ written \subseteq files
    /\ Cardinality(SuccessLines) = success
    /\ Cardinality(written) <= success
    /\ (Cardinality(written) = success) <=>
         (\A j, k \in SuccessLines :
            WavOfLine(lines[j]) = WavOfLine(lines[k]) => j = k)

C9_Witness ==
  /\ summaryPrinted
  /\ success = 2
  /\ Cardinality(written) = 1
  /\ lines[2] = << <<"a", "_">>, <<"a">> >>
  /\ lines[3] = << <<"a">>, <<"_", "a">> >>

Finished(j) == j < Cur \/ step = "idle"

EligibleDone == { j \in 2..Cur : EligibleLine(lines[j]) /\ Finished(j) }

====
